---- MODULE Spec2Model ----
(***************************************************************************)
(* convert_to_utf8_(text, charset, output) of                              *)
(* xapian-applications/omega/utf8convert.cc as a state machine: one call,  *)
(* from entry to return, one action per branch of the label dispatch and   *)
(* per loop iteration.  Bytes are integers 0..255, the charset label is a  *)
(* sequence of one-character strings, positions in text are 0-based byte   *)
(* offsets as in the source.                                               *)
(***************************************************************************)
EXTENDS Integers, Sequences, FiniteSets, TLC

(* ------------------------------ bounds -------------------------------- *)
\* longest exhaustively enumerated input, in bytes
MaxLen == 3
\* longest enumerated input built from 16-bit code units, in units
MaxUnits == 3
\* number of repeated 3-byte-encoded characters in the long inputs
LongReps == 339

(* --------------------------- program constants ------------------------ *)
\* char buf[1024];
BufSize == 1024

NUL == "\\0"

(* ------------------------------ C strings ----------------------------- *)
\* the letters tolower() changes
LowerOf ==
    [c \in {"A","B","C","D","E","F","G","H","I","J","K","L","M",
            "N","O","P","Q","R","S","T","U","V","W","X","Y","Z"} |->
        CASE c = "A" -> "a" [] c = "B" -> "b" [] c = "C" -> "c" [] c = "D" -> "d"
          [] c = "E" -> "e" [] c = "F" -> "f" [] c = "G" -> "g" [] c = "H" -> "h"
          [] c = "I" -> "i" [] c = "J" -> "j" [] c = "K" -> "k" [] c = "L" -> "l"
          [] c = "M" -> "m" [] c = "N" -> "n" [] c = "O" -> "o" [] c = "P" -> "p"
          [] c = "Q" -> "q" [] c = "R" -> "r" [] c = "S" -> "s" [] c = "T" -> "t"
          [] c = "U" -> "u" [] c = "V" -> "v" [] c = "W" -> "w" [] c = "X" -> "x"
          [] c = "Y" -> "y" [] c = "Z" -> "z"]

\* tolower() as strcasecmp/strncasecmp apply it to each character
ToLower(c) == IF c \in DOMAIN LowerOf THEN LowerOf[c] ELSE c

\* s.c_str()[k-1]: the k-th character (1-based), NUL at and after the end
CharAt(s, k) == IF k >= 1 /\ k <= Len(s) THEN s[k] ELSE NUL

\* strncmp(s + (k-1), lit, Len(lit)) == 0
strncmp_eq(s, k, lit) == \A j \in 1..Len(lit) : CharAt(s, k + j - 1) = lit[j]

\* strcmp(s + (k-1), lit) == 0
strcmp_eq(s, k, lit) == strncmp_eq(s, k, lit) /\ CharAt(s, k + Len(lit)) = NUL

\* strncasecmp(s + (k-1), lit, Len(lit)) == 0, lit given in lower case
strncasecmp_eq(s, k, lit) ==
    \A j \in 1..Len(lit) : ToLower(CharAt(s, k + j - 1)) = lit[j]

\* strcasecmp(s + (k-1), lit) == 0, lit given in lower case
strcasecmp_eq(s, k, lit) ==
    strncasecmp_eq(s, k, lit) /\ CharAt(s, k + Len(lit)) = NUL

\* if (*p == '-' || *p == '_' || *p == ' ') ++p;
SkipSep(s, k) == IF CharAt(s, k) \in {"-", "_", " "} THEN k + 1 ELSE k

(* --------------------------- label dispatch --------------------------- *)
\* the shortcut returns of lines 42-52, with a case-sensitive comparison
IsPassthrough_case(cs) ==
    \/ Len(cs) = 5 /\ strcmp_eq(cs, 1, <<"u","t","f","-","8">>)
    \/ Len(cs) = 4 /\ strcmp_eq(cs, 1, <<"u","t","f","8">>)
    \/ Len(cs) = 8 /\ strcmp_eq(cs, 1, <<"u","s","-","a","s","c","i","i">>)
    \/ Len(cs) = 0

\* lines 42-52: the four shortcut returns
IsPassthrough(cs) ==
    \/ Len(cs) = 5 /\ strcasecmp_eq(cs, 1, <<"u","t","f","-","8">>)
    \/ Len(cs) = 4 /\ strcasecmp_eq(cs, 1, <<"u","t","f","8">>)
    \/ Len(cs) = 8 /\ strcasecmp_eq(cs, 1, <<"u","s","-","a","s","c","i","i">>)
    \/ Len(cs) = 0

\* lines 59-74: the utf/ucs prefix.  p is the 1-based position reached,
\* jump is TRUE where the code does goto try_iconv.
PrefixParse(cs) ==
    IF strncasecmp_eq(cs, 1, <<"u","t","f">>)
    THEN LET q == SkipSep(cs, 4)
         IN  IF CharAt(cs, q) # "1" \/ CharAt(cs, q + 1) # "6"
             THEN [jump |-> TRUE, utf16 |-> FALSE, p |-> q]
             ELSE [jump |-> FALSE, utf16 |-> TRUE, p |-> q + 2]
    ELSE IF strncasecmp_eq(cs, 1, <<"u","c","s">>)
    THEN LET q == SkipSep(cs, 4)
         IN  IF CharAt(cs, q) # "2"
             THEN [jump |-> TRUE, utf16 |-> FALSE, p |-> q]
             ELSE [jump |-> FALSE, utf16 |-> TRUE, p |-> q + 1]
    ELSE [jump |-> FALSE, utf16 |-> FALSE, p |-> 1]

\* lines 81, 93-97: the suffix after utf16/ucs2
Utf16Suffix(cs, p) ==
    IF CharAt(cs, p) = NUL THEN "bom"
    ELSE IF strcasecmp_eq(cs, p, <<"l","e">>) THEN "le"
    ELSE IF ~ strcasecmp_eq(cs, p, <<"b","e">>) THEN "try_iconv"
    ELSE "be"

\* lines 150-171: windows-1252 / cp1252 / iso-8859-1 / iso-8859-15
SingleByteParse(cs, p) ==
    LET q == IF strncasecmp_eq(cs, p, <<"w","i","n","d","o","w","s">>) THEN p + 7
             ELSE IF strncasecmp_eq(cs, p, <<"c","p">>) THEN p + 2
             ELSE 0
    IN  IF q # 0
        THEN IF strcmp_eq(cs, SkipSep(cs, q), <<"1","2","5","2">>)
             THEN "cp1252" ELSE "try_iconv"
        ELSE LET p1 == IF strncasecmp_eq(cs, p, <<"i","s","o">>)
                       THEN SkipSep(cs, p + 3) ELSE p
                 p2 == SkipSep(cs, p1 + 4)
             IN  IF ~ strncmp_eq(cs, p1, <<"8","8","5","9">>) THEN "try_iconv"
                 ELSE IF CharAt(cs, p2) # "1" THEN "try_iconv"
                 ELSE IF strcmp_eq(cs, p2 + 1, <<"5">>) THEN "iso8859_15"
                 ELSE IF CharAt(cs, p2 + 1) # NUL THEN "try_iconv"
                 ELSE "cp1252"

\* lines 42-171: where control goes for a label and an input size
Route(cs, size) ==
    IF IsPassthrough(cs) THEN "passthrough"
    ELSE LET pre == PrefixParse(cs)
         IN  IF pre.jump THEN "try_iconv"
             ELSE IF pre.utf16
             THEN IF size < 2 THEN "short"
                  ELSE IF Utf16Suffix(cs, pre.p) = "try_iconv" THEN "try_iconv"
                  ELSE "utf16"
             ELSE SingleByteParse(cs, pre.p)

(* ------------------------------ decoders ------------------------------ *)
\* lines 112-116 with the two branches exchanged
MakeUnit_swapped(ch, ch2, big_endian) ==
    IF big_endian THEN (ch2 * 256) + ch ELSE (ch * 256) + ch2

\* lines 112-116: (ch << 8) | ch2, or (ch2 << 8) | ch
MakeUnit(ch, ch2, big_endian) ==
    IF big_endian THEN (ch * 256) + ch2 ELSE (ch2 * 256) + ch

\* line 117 testing the whole surrogate block 0xD800-0xDFFF
IsHighSurrogate_wide(ch) == (ch \div 2048) = (55296 \div 2048)

\* line 117: ch >> 10 == 0xd800 >> 10
IsHighSurrogate(ch) == (ch \div 1024) = (55296 \div 1024)

\* line 128: ch >> 10 == 0xdc00 >> 10
IsLowSurrogate(ch) == (ch \div 1024) = (56320 \div 1024)

\* lines 129-131: ch &= 0x3ff; ch |= (hi << 10); ch += 0x10000;
\* the two operands of | share no bit, so | is +
CombineSurrogates(hi, ch) == (ch % 1024) + (hi * 1024) + 65536

\* lines 103-107 without the decrement
TruncatedEnd_keep(size) == size

\* lines 102-107: text.end(), less one when the size is odd
TruncatedEnd(size) == IF size % 2 = 1 THEN size - 1 ELSE size

cp1252_to_unicode ==
    << 8364,  129, 8218,  402, 8222, 8230, 8224, 8225,
        710, 8240,  352, 8249,  338,  141,  381,  143,
        144, 8216, 8217, 8220, 8221, 8226, 8211, 8212,
        732, 8482,  353, 8250,  339,  157,  382,  376 >>

iso8859_15_to_unicode ==
    << 8364,  165,  352,  167,  353,  169,  170,  171,
        172,  173,  174,  175,  176,  177,  178,  179,
        381,  181,  182,  183,  382,  185,  186,  187,
        338,  339,  376 >>

\* lines 184-187 as a strict iso-8859-1 decoder: no table lookup
Cp1252CodePoint_latin1(ch) == ch

\* lines 184-187: unsigned i = code_point - 128 wraps to a huge value for
\* code_point < 128, so i < 32 holds exactly for 128 <= code_point < 160
Cp1252CodePoint(ch) ==
    IF ch >= 128 /\ ch - 128 < Len(cp1252_to_unicode)
    THEN cp1252_to_unicode[ch - 128 + 1]
    ELSE ch

\* lines 234-237, the same with base 164
Iso8859_15CodePoint(ch) ==
    IF ch >= 164 /\ ch - 164 < Len(iso8859_15_to_unicode)
    THEN iso8859_15_to_unicode[ch - 164 + 1]
    ELSE ch

\* Xapian::Unicode::to_utf8(ch, buf): the bytes written (their number is
\* the return value)
to_utf8(ch) ==
    IF ch < 128 THEN << ch >>
    ELSE IF ch < 2048 THEN << 192 + (ch \div 64), 128 + (ch % 64) >>
    ELSE IF ch < 65536
    THEN << 224 + (ch \div 4096), 128 + ((ch \div 64) % 64), 128 + (ch % 64) >>
    ELSE << 240 + (ch \div 262144), 128 + ((ch \div 4096) % 64),
            128 + ((ch \div 64) % 64), 128 + (ch % 64) >>

\* lines 135/189/239 flushing only once the buffer is full
NeedFlush_full(n) == n >= BufSize

\* lines 135/189/239: start >= sizeof(buf) - 4
NeedFlush(n) == n >= BufSize - 4


(* ------------------------------- inputs ------------------------------- *)
Repeat(b, n) == [k \in 1..n |-> b]

SeqsUpTo(S, n) == UNION { [1..k -> S] : k \in 0..n }

\* 'A' and 0x80 (the euro sign of cp1252)
ShortBytes == {65, 128}

ShortInputs == SeqsUpTo(ShortBytes, MaxLen)

\* U+0041, high surrogate 0xD83D, low surrogate 0xDE00, 0xFEFF (whose
\* bytes are a byte order mark in either order)
Units == {65, 55357, 56832, 65279}

UnitBytes(us, be) ==
    [k \in 1..(2 * Len(us)) |->
        LET u == us[(k + 1) \div 2]
        IN  IF (k % 2 = 1) = be THEN u \div 256 ELSE u % 256]

UnitInputs ==
    { UnitBytes(us, be) \o tr :
        us \in (SeqsUpTo(Units, MaxUnits) \ {<<>>}),
        be \in BOOLEAN, tr \in {<<>>, <<65>>} }

\* every byte value once, in order
AllBytes == [k \in 1..256 |-> k - 1]

\* long enough to fill the staging buffer with 3-byte encodings
LongByteInputs ==
    { pre \o Repeat(b, LongReps) \o <<b, b>> :
        pre \in {<<>>, <<65>>, <<65, 65>>}, b \in {128, 164} }

LongUnitInputs ==
    { pre \o UnitBytes(Repeat(32896, LongReps), TRUE) \o tail :
        pre \in {<<>>, <<0, 65>>, <<0, 128>>},
        tail \in { <<216, 61, 222, 0, 128, 128>>, <<128, 128, 128, 128>> } }

L_empty == <<>>
L_utf8 == <<"u","t","f","-","8">>
L_UTF8 == <<"U","T","F","-","8">>
L_Utf8 == <<"U","t","f","8">>
L_usascii == <<"u","s","-","a","s","c","i","i">>
L_USASCII == <<"U","S","-","A","S","C","I","I">>
L_utf_8 == <<"u","t","f","_","8">>
L_utf7 == <<"u","t","f","-","7">>
L_utf1 == <<"U","T","F","-","1">>
L_utf32 == <<"u","t","f","-","3","2">>
L_ucs4 == <<"u","c","s","-","4">>
L_utf16 == <<"u","t","f","-","1","6">>
L_UTF16 == <<"U","T","F","1","6">>
L_ucs2 == <<"u","c","s","-","2">>
L_utf16le == <<"u","t","f","-","1","6","l","e">>
L_UCS2LE == <<"U","C","S","2","L","E">>
L_utf_16BE == <<"u","t","f","_","1","6","B","E">>
L_ucs_2be == <<"u","c","s"," ","2","b","e">>
L_utf16_le == <<"U","T","F","-","1","6","-","L","E">>
L_ucs2internal == <<"U","C","S","-","2","-","I","N","T","E","R","N","A","L">>
L_windows1252 == <<"w","i","n","d","o","w","s","-","1","2","5","2">>
L_cp1252 == <<"c","p","1","2","5","2">>
L_CP_1252 == <<"C","P","_","1","2","5","2">>
L_windows1251 == <<"w","i","n","d","o","w","s","-","1","2","5","1">>
L_cp437 == <<"c","p","4","3","7">>
L_iso88591 == <<"i","s","o","-","8","8","5","9","-","1">>
L_ISO8859_1 == <<"I","S","O","8","8","5","9","_","1">>
L_88591 == <<"8","8","5","9","-","1">>
L__88591 == <<"_","8","8","5","9","-","1">>
L_iso885915 == <<"i","s","o","-","8","8","5","9","-","1","5">>
L_8859_15 == <<"8","8","5","9"," ","1","5">>
L_iso88592 == <<"i","s","o","-","8","8","5","9","-","2">>
L_iso885910 == <<"I","S","O","-","8","8","5","9","-","1","0">>
L_shiftjis == <<"s","h","i","f","t","_","j","i","s">>
L_latin1 == <<"l","a","t","i","n","1">>

PassthroughLabels == {L_empty, L_utf8, L_UTF8, L_Utf8, L_usascii, L_USASCII}

Utf16Labels ==
    {L_utf16, L_UTF16, L_ucs2, L_utf16le, L_UCS2LE, L_utf_16BE, L_ucs_2be}

\* utf16/ucs2 followed by something other than LE or BE
Utf16OddLabels == {L_utf16_le, L_ucs2internal}

Cp1252Labels == {L_windows1252, L_cp1252, L_CP_1252}

Latin1Labels == {L_iso88591, L_ISO8859_1, L_88591}

Iso15Labels == {L_iso885915, L_8859_15}

OtherLabels ==
    {L_utf_8, L_utf7, L_utf1, L_utf32, L_ucs4, L_windows1251, L_cp437,
     L_iso88592, L_iso885910, L_shiftjis, L_latin1, L__88591}

Labels ==
    PassthroughLabels \cup Utf16Labels \cup Utf16OddLabels \cup Cp1252Labels
        \cup Latin1Labels \cup Iso15Labels \cup OtherLabels

\* the calls explored: every label on the short inputs, the utf/ucs labels
\* on the inputs built from code units, the table decoders and the UTF-16
\* decoder on the long inputs
Calls ==
    (Labels \X ShortInputs)
        \cup ((Utf16Labels \cup {L_utf8}) \X UnitInputs)
        \cup ((Cp1252Labels \cup Latin1Labels \cup Iso15Labels) \X {AllBytes})
        \cup ({L_cp1252, L_iso88591, L_iso885915} \X LongByteInputs)
        \cup ({L_utf_16BE, L_utf16} \X LongUnitInputs)


(* ------------------------------- state -------------------------------- *)
VARIABLES
    charset,     \* the charset argument
    text_size,   \* text.size(): a string_view keeps its size
    text_store,  \* the caller's input storage when it is not `output`
    aliased,     \* TRUE when text views the storage of `output`
    output,      \* the caller's output string
    pc,          \* position of the call
    converted,   \* the return value, FALSE until the call returns
    route,       \* the branch the label dispatch took
    i,           \* read position in text (byte offset)
    text_end,    \* end of the UTF-16 loop (byte offset)
    big_endian,
    start,       \* fill index of buf
    buf,         \* the used part buf[0..start) of the staging buffer
    tmp,         \* the output accumulator
    conv,        \* the conversion context: none, failed, open, closed
    in_len,      \* input the conversion facility has not consumed yet
    \* what the call did, recorded for the properties
    text0,       \* the input bytes at entry
    istart,      \* read position on entry to the UTF-16 loop
    maxRead,     \* number of leading bytes of text touched so far
    units,       \* the 16-bit units assembled so far
    emitted,     \* the scalar values handed to to_utf8 so far
    enc,         \* fill index before and after the last encode, and
                 \* whether the iteration then flushed
    calls,       \* the conversion calls that consumed input or ended the
                 \* loop: result, chunk, bytes left
    tick,        \* parity of the number of conversion calls made
    stalled,     \* the last conversion call answered E2BIG and consumed
                 \* no input
    nClose,      \* number of iconv_close calls
    badCall,     \* a conversion or close call on a context that is not open
    nWrites      \* number of assignments to output

vars ==
    << charset, text_size, text_store, aliased, output, pc, converted, route,
       i, text_end, big_endian, start, buf, tmp, conv, in_len, text0, istart,
       maxRead, units, emitted, enc, calls, tick, stalled, nClose, badCall,
       nWrites >>

locals == << i, text_end, big_endian, start, buf, tmp, istart >>
decoded == << maxRead, units, emitted, enc >>
facility == << conv, in_len, calls, tick, stalled, nClose, badCall >>
caller == << charset, text_size, text_store, aliased, text0 >>

\* the bytes text views
Storage == IF aliased THEN output ELSE text_store

InText(k) == k >= 0 /\ k < text_size /\ k < Len(Storage)

\* text[k]; a read outside the viewed storage yields an arbitrary byte
Rd(k, oob) == IF InText(k) THEN Storage[k + 1] ELSE oob

OobSet(k) == IF InText(k) THEN {0} ELSE 0..255

Max(a, b) == IF a >= b THEN a ELSE b

\* what the caller's output string holds before a call with distinct storage
OldOutput == << 111, 108, 100 >>

Init ==
    /\ \E call \in Calls, al \in BOOLEAN :
        /\ charset = call[1]
        /\ text0 = call[2]
        /\ text_size = Len(call[2])
        /\ aliased = al
        /\ text_store = IF al THEN <<>> ELSE call[2]
        /\ output = IF al THEN call[2] ELSE OldOutput
    /\ pc = "start"
    /\ converted = FALSE
    /\ route = "none"
    /\ i = 0
    /\ text_end = 0
    /\ big_endian = TRUE
    /\ start = 0
    /\ buf = <<>>
    /\ tmp = <<>>
    /\ conv = "none"
    /\ in_len = 0
    /\ istart = 0
    /\ maxRead = 0
    /\ units = <<>>
    /\ emitted = <<>>
    /\ enc = [pre |-> 0, post |-> 0, flushed |-> FALSE, any |-> FALSE]
    /\ calls = <<>>
    /\ tick = FALSE
    /\ stalled = FALSE
    /\ nClose = 0
    /\ badCall = FALSE
    /\ nWrites = 0

(* ------------------------ returns without output ---------------------- *)
\* lines 42-52: return false
Passthrough ==
    /\ pc = "start"
    /\ Route(charset, text_size) = "passthrough"
    /\ pc' = "done"
    /\ converted' = FALSE
    /\ route' = "passthrough"
    /\ UNCHANGED << caller, output, locals, decoded, facility, nWrites >>

\* line 77: if (text.size() < 2) return false;
Utf16TooShort ==
    /\ pc = "start"
    /\ Route(charset, text_size) = "short"
    /\ pc' = "done"
    /\ converted' = FALSE
    /\ route' = "short"
    /\ UNCHANGED << caller, output, locals, decoded, facility, nWrites >>

(* ------------------------------- UTF-16 ------------------------------- *)
\* lines 83-88: startswith(text, "\xfe\xff") / startswith(text, "\xff\xfe")
BomOf(b0, b1) ==
    IF b0 = 254 /\ b1 = 255 THEN "be"
    ELSE IF b0 = 255 /\ b1 = 254 THEN "le"
    ELSE "none"

\* lines 79-107: byte order, byte order mark, truncation of an odd size
DispatchUtf16 ==
    /\ pc = "start"
    /\ Route(charset, text_size) = "utf16"
    /\ \E o0 \in OobSet(0), o1 \in OobSet(1) :
        LET suf == Utf16Suffix(charset, PrefixParse(charset).p)
            bom == IF suf = "bom" THEN BomOf(Rd(0, o0), Rd(1, o1)) ELSE "none"
            first == IF bom # "none" THEN 2 ELSE 0
        IN  /\ big_endian' = IF suf = "bom" THEN bom # "le" ELSE suf = "be"
            /\ i' = first
            /\ istart' = first
            /\ maxRead' = IF suf = "bom" THEN 2 ELSE 0
    /\ text_end' = TruncatedEnd(text_size)
    /\ pc' = "utf16"
    /\ route' = "utf16"
    /\ UNCHANGED << caller, output, converted, start, buf, tmp, units, emitted,
                    enc, facility, nWrites >>

\* start += to_utf8(ch, buf + start); if (start >= sizeof(buf) - 4) {
\* tmp.append(buf, start); start = 0; }          (lines 134-138, 188-192,
\* 238-242)
Encode(ch) ==
    LET bytes == to_utf8(ch)
        n == start + Len(bytes)
    IN  /\ emitted' = Append(emitted, ch)
        /\ enc' = [pre |-> start, post |-> n, flushed |-> NeedFlush(n),
                   any |-> TRUE]
        /\ IF NeedFlush(n)
           THEN /\ tmp' = tmp \o SubSeq(buf \o bytes, 1, n)
                /\ buf' = <<>>
                /\ start' = 0
           ELSE /\ tmp' = tmp
                /\ buf' = buf \o bytes
                /\ start' = n

\* lines 109-139: one iteration of the loop
Utf16Iter ==
    /\ pc = "utf16"
    /\ i # text_end
    /\ \E o1 \in OobSet(i), o2 \in OobSet(i + 1) :
        LET ch == MakeUnit(Rd(i, o1), Rd(i + 1, o2), big_endian)
        IN  IF ~ IsHighSurrogate(ch)
            THEN /\ Encode(ch)
                 /\ i' = i + 2
                 /\ maxRead' = Max(maxRead, i + 2)
                 /\ units' = Append(units, ch)
                 /\ pc' = "utf16"
            ELSE IF i + 2 = text_end
            THEN \* if (i == text_end) break;
                 /\ i' = i + 2
                 /\ maxRead' = Max(maxRead, i + 2)
                 /\ units' = Append(units, ch)
                 /\ pc' = "utf16_break"
                 /\ UNCHANGED << start, buf, tmp, emitted, enc >>
            ELSE \E o3 \in OobSet(i + 2), o4 \in OobSet(i + 3) :
                 LET hi == ch % 1024
                     lo == MakeUnit(Rd(i + 2, o3), Rd(i + 3, o4), big_endian)
                 IN  /\ Encode(IF IsLowSurrogate(lo)
                               THEN CombineSurrogates(hi, lo) ELSE lo)
                     /\ i' = i + 4
                     /\ maxRead' = Max(maxRead, i + 4)
                     /\ units' = units \o << ch, lo >>
                     /\ pc' = "utf16"
    /\ UNCHANGED << caller, output, converted, route, text_end, big_endian,
                    istart, facility, nWrites >>

\* line 140 after the loop ended or broke: if (start) tmp.append(buf, start);
Utf16Finish ==
    /\ \/ pc = "utf16" /\ i = text_end
       \/ pc = "utf16_break"
    /\ tmp' = IF start # 0 THEN tmp \o SubSeq(buf, 1, start) ELSE tmp
    /\ pc' = "assign"
    /\ UNCHANGED << caller, output, converted, route, i, text_end, big_endian,
                    start, buf, istart, decoded, facility, nWrites >>

(* ------------------------- single-byte tables ------------------------- *)
\* lines 150-176 building the result in output instead of tmp:
\* output.clear() before the loop
DispatchCp1252_clear ==
    /\ pc = "start"
    /\ Route(charset, text_size) = "cp1252"
    /\ pc' = "cp1252"
    /\ route' = "cp1252"
    /\ output' = <<>>
    /\ nWrites' = nWrites + 1
    /\ UNCHANGED << caller, converted, locals, decoded, facility >>

\* lines 150-176: windows-1252, cp1252 and iso-8859-1 share one loop
DispatchCp1252 ==
    /\ pc = "start"
    /\ Route(charset, text_size) = "cp1252"
    /\ pc' = "cp1252"
    /\ route' = "cp1252"
    /\ UNCHANGED << caller, output, converted, locals, decoded, facility,
                    nWrites >>

\* lines 177-193: one iteration of for (unsigned char ch : text)
Cp1252Iter ==
    /\ pc = "cp1252"
    /\ i # text_size
    /\ \E o \in OobSet(i) : Encode(Cp1252CodePoint(Rd(i, o)))
    /\ i' = i + 1
    /\ maxRead' = Max(maxRead, i + 1)
    /\ UNCHANGED << caller, output, pc, converted, route, text_end, big_endian,
                    istart, units, facility, nWrites >>

\* line 194
Cp1252Finish ==
    /\ pc = "cp1252"
    /\ i = text_size
    /\ tmp' = IF start # 0 THEN tmp \o SubSeq(buf, 1, start) ELSE tmp
    /\ pc' = "assign"
    /\ UNCHANGED << caller, output, converted, route, i, text_end, big_endian,
                    start, buf, istart, decoded, facility, nWrites >>

\* line 169: goto iso8859_15; lines 223-226
DispatchIso8859_15 ==
    /\ pc = "start"
    /\ Route(charset, text_size) = "iso8859_15"
    /\ pc' = "iso8859_15"
    /\ route' = "iso8859_15"
    /\ UNCHANGED << caller, output, converted, locals, decoded, facility,
                    nWrites >>

\* lines 227-243
Iso8859_15Iter ==
    /\ pc = "iso8859_15"
    /\ i # text_size
    /\ \E o \in OobSet(i) : Encode(Iso8859_15CodePoint(Rd(i, o)))
    /\ i' = i + 1
    /\ maxRead' = Max(maxRead, i + 1)
    /\ UNCHANGED << caller, output, pc, converted, route, text_end, big_endian,
                    istart, units, facility, nWrites >>

\* line 244
Iso8859_15Finish ==
    /\ pc = "iso8859_15"
    /\ i = text_size
    /\ tmp' = IF start # 0 THEN tmp \o SubSeq(buf, 1, start) ELSE tmp
    /\ pc' = "assign"
    /\ UNCHANGED << caller, output, converted, route, i, text_end, big_endian,
                    start, buf, istart, decoded, facility, nWrites >>


(* ------------------------ generic fallback (iconv) -------------------- *)
\* what iconv() can answer: success, or -1 with errno E2BIG or another errno
IconvResults == {"ok", "E2BIG", "EILSEQ"}

\* lines 208-209 without the errno test: any failure leaves the loop
IconvBreaks_any(rc) == rc # "ok"

\* lines 208-211 without the break: every failure is retried
IconvBreaks_never(rc) == FALSE

\* lines 208-209: iconv(...) == size_t(-1) && errno != E2BIG
IconvBreaks(rc) == rc # "ok" /\ rc # "E2BIG"

\* lines 217-219, built without HAVE_ICONV: return false
IconvUnavailable ==
    /\ pc = "start"
    /\ Route(charset, text_size) = "try_iconv"
    /\ pc' = "done"
    /\ converted' = FALSE
    /\ route' = "try_iconv"
    /\ UNCHANGED << caller, output, locals, decoded, facility, nWrites >>

\* lines 200-202: iconv_open fails, return false
IconvOpenFail ==
    /\ pc = "start"
    /\ Route(charset, text_size) = "try_iconv"
    /\ conv' = "failed"
    /\ pc' = "done"
    /\ converted' = FALSE
    /\ route' = "try_iconv"
    /\ UNCHANGED << caller, output, locals, decoded, in_len, calls, tick,
                    stalled, nClose, badCall, nWrites >>

\* lines 200-204: iconv_open succeeds
IconvOpen ==
    /\ pc = "start"
    /\ Route(charset, text_size) = "try_iconv"
    /\ conv' = "open"
    /\ in_len' = text_size
    /\ pc' = "iconv"
    /\ route' = "try_iconv"
    /\ UNCHANGED << caller, output, converted, locals, decoded, calls, tick,
                    stalled, nClose, badCall, nWrites >>

\* lines 205-214: one iteration.  The facility consumes `used` bytes of the
\* remaining input and leaves one byte in buf for each (at most in_len, far
\* below sizeof(buf), for the inputs explored); it reports success exactly
\* when it consumed all the input.  The bytes it writes name the call.  A
\* call that consumes nothing and leaves the loop running changes nothing
\* the loop tests: in, in_len and tmp are what they were (lines 206-213).
IconvCall ==
    /\ pc = "iconv"
    /\ in_len # 0
    /\ \E rc \in IconvResults, used \in 0..in_len :
        LET chunk == [k \in 1..used |-> 48 + Len(calls)]
        IN  /\ (rc = "ok") = (used = in_len)
            /\ in_len' = in_len - used
            /\ calls' = IF used > 0 \/ IconvBreaks(rc)
                        THEN Append(calls, [rc |-> rc, chunk |-> chunk,
                                            left |-> in_len - used])
                        ELSE calls
            /\ tick' = ~ tick
            /\ stalled' = (rc = "E2BIG" /\ used = 0)
            /\ badCall' = (badCall \/ conv # "open")
            /\ IF IconvBreaks(rc)
               THEN /\ pc' = "iconv_break"
                    /\ tmp' = tmp
               ELSE /\ pc' = "iconv"
                    /\ tmp' = tmp \o chunk
    /\ UNCHANGED << caller, output, converted, route, i, text_end, big_endian,
                    start, buf, istart, decoded, conv, nClose, nWrites >>

\* lines 205, 211 and 216 with the iconv_close call left out
IconvClose_skip ==
    /\ \/ pc = "iconv" /\ in_len = 0
       \/ pc = "iconv_break"
    /\ pc' = "assign"
    /\ UNCHANGED << caller, output, converted, route, locals, decoded,
                    facility, nWrites >>

\* line 216, reached when the loop ends (line 205) or breaks (line 211)
IconvClose ==
    /\ \/ pc = "iconv" /\ in_len = 0
       \/ pc = "iconv_break"
    /\ conv' = "closed"
    /\ nClose' = nClose + 1
    /\ badCall' = (badCall \/ conv # "open")
    /\ pc' = "assign"
    /\ UNCHANGED << caller, output, converted, route, locals, decoded, in_len,
                    calls, tick, stalled, nWrites >>

(* ------------------------------- return ------------------------------- *)
\* lines 249-250: output = std::move(tmp); return true;
Assign ==
    /\ pc = "assign"
    /\ output' = tmp
    /\ nWrites' = nWrites + 1
    /\ converted' = TRUE
    /\ pc' = "done"
    /\ UNCHANGED << caller, route, locals, decoded, facility >>

Next ==
    \/ Passthrough
    \/ Utf16TooShort
    \/ DispatchUtf16
    \/ Utf16Iter
    \/ Utf16Finish
    \/ DispatchCp1252
    \/ Cp1252Iter
    \/ Cp1252Finish
    \/ DispatchIso8859_15
    \/ Iso8859_15Iter
    \/ Iso8859_15Finish
    \/ IconvUnavailable
    \/ IconvOpenFail
    \/ IconvOpen
    \/ IconvCall
    \/ IconvClose
    \/ Assign

Spec == Init /\ [][Next]_vars

\* every step of the call moves the program counter, a read position or
\* the parity of the conversion calls
position == << pc, i, tick >>

\* the call runs on its own thread of control and keeps executing: a step
\* that can be taken is taken
SpecLive == Init /\ [][Next]_vars /\ WF_position(Next)


(* ----------------------------- properties ----------------------------- *)
\* the label with every letter folded to lower case
LowerLabel(cs) == [k \in 1..Len(cs) |-> ToLower(cs[k])]

Seps == { <<>>, <<"-">>, <<"_">>, <<" ">> }

\* what output holds before the call
Output0 == IF aliased THEN text0 ELSE OldOutput

\* concatenation of the UTF-8 encodings of s[lo..hi]
RECURSIVE EncodeRange(_, _, _)
EncodeRange(s, lo, hi) ==
    IF lo > hi THEN <<>>
    ELSE IF lo = hi THEN to_utf8(s[lo])
    ELSE LET mid == (lo + hi) \div 2
         IN  EncodeRange(s, lo, mid) \o EncodeRange(s, mid + 1, hi)

EncodeAll(s) == EncodeRange(s, 1, Len(s))

\* labels the shortcut is specified for
ShortcutPattern ==
    { <<>>, <<"u","t","f","-","8">>, <<"u","t","f","8">>,
      <<"u","s","-","a","s","c","i","i">> }

\* C1: for a label equal, ignoring case, to "utf-8", "utf8" or "us-ascii",
\* or empty, the call returns converted = false, output stays as it was
\* before the call, and no decoder and no conversion facility is invoked.
C1_PassthroughUntouched ==
    LowerLabel(charset) \in ShortcutPattern =>
        /\ pc \in {"start", "done"}
        /\ pc = "done" => converted = FALSE
        /\ output = Output0
        /\ nWrites = 0
        /\ emitted = <<>> /\ units = <<>> /\ maxRead = 0
        /\ conv = "none" /\ calls = <<>>

C1_Witness ==
    /\ pc = "done"
    /\ charset = L_USASCII
    /\ aliased
    /\ text0 = << 128, 65 >>
    /\ converted = FALSE
    /\ output = text0

\* the last two characters of the lowered label
LabelTail(cs) ==
    IF Len(cs) < 2 THEN <<>> ELSE SubSeq(LowerLabel(cs), Len(cs) - 1, Len(cs))

\* byte order and first decoded offset C2 states for a label and an input
\* of at least 2 bytes
ExpectedOrder(cs, t) ==
    IF LabelTail(cs) = <<"l","e">> THEN [be |-> FALSE, first |-> 0]
    ELSE IF LabelTail(cs) = <<"b","e">> THEN [be |-> TRUE, first |-> 0]
    ELSE IF t[1] = 254 /\ t[2] = 255 THEN [be |-> TRUE, first |-> 2]
    ELSE IF t[1] = 255 /\ t[2] = 254 THEN [be |-> FALSE, first |-> 2]
    ELSE [be |-> TRUE, first |-> 0]

\* the 16-bit unit at byte offset k of t in the given byte order
UnitAt(t, k, be) ==
    IF be THEN (t[k + 1] * 256) + t[k + 2] ELSE (t[k + 2] * 256) + t[k + 1]

\* C2: in the UTF-16 decoder, without an endianness suffix a leading FE FF
\* selects big-endian and FF FE little-endian, both consumed, anything else
\* big-endian with nothing consumed; with an LE or BE suffix that order is
\* used and nothing is consumed; every unit is assembled in that order.
C2_ByteOrder ==
    route = "utf16" =>
        LET e == ExpectedOrder(charset, text0)
        IN  /\ big_endian = e.be
            /\ istart = e.first
            /\ \A k \in 1..Len(units) :
                   units[k] = UnitAt(text0, e.first + (2 * (k - 1)), e.be)

C2_Witness ==
    /\ pc = "done"
    /\ charset = L_utf16
    /\ text0 = << 255, 254, 65, 0 >>
    /\ ~ big_endian
    /\ istart = 2
    /\ units = << 65 >>
    /\ output = << 65 >>

\* the reference decoder of C3 on the units us, from index k
RECURSIVE RefDecode(_, _)
RefDecode(us, k) ==
    IF k > Len(us) THEN <<>>
    ELSE IF us[k] < 55296 \/ us[k] > 56319 THEN << us[k] >> \o RefDecode(us, k + 1)
    ELSE IF k = Len(us) THEN <<>>
    ELSE IF us[k + 1] >= 56320 /\ us[k + 1] <= 57343
    THEN << 65536 + ((us[k] % 1024) * 1024) + (us[k + 1] % 1024) >>
             \o RefDecode(us, k + 2)
    ELSE << us[k + 1] >> \o RefDecode(us, k + 2)

\* C3: the scalars the UTF-16 decoder emits are those of the reference scan
\* (a high surrogate is combined with a following low surrogate, dropped
\* before any other unit, which is emitted alone, and dropped at the end),
\* and every emitted scalar lies in [0, 0x10FFFF].
C3_SurrogateDecoding ==
    (route = "utf16" /\ pc \in {"utf16_break", "assign", "done"}) =>
        /\ emitted = RefDecode(units, 1)
        /\ \A k \in 1..Len(emitted) : emitted[k] >= 0 /\ emitted[k] <= 1114111

C3_Witness ==
    /\ pc = "done"
    /\ units = << 55357, 55357, 56832 >>
    /\ emitted = << 55357, 56832 >>
    /\ output = << 237, 160, 189, 237, 184, 128 >>


\* lowered labels "windows" or "cp", optional separator, "1252"
Cp1252Pattern ==
    { w \o sep \o <<"1","2","5","2">> :
        w \in { <<"w","i","n","d","o","w","s">>, <<"c","p">> }, sep \in Seps }

\* lowered labels optional "iso" with its optional separator, "8859",
\* optional separator, then the given tail
Iso8859Pattern(tail) ==
    { iso \o <<"8","8","5","9">> \o sep \o tail :
        iso \in ({ <<>> } \cup { <<"i","s","o">> \o s1 : s1 \in Seps }),
        sep \in Seps }

\* the scalar C4 states for a byte
RefCp1252(b) == IF b >= 128 /\ b <= 159 THEN cp1252_to_unicode[b - 127] ELSE b

RefIso8859_15(b) ==
    IF b >= 164 /\ b <= 190 THEN iso8859_15_to_unicode[b - 163] ELSE b

\* C4: an iso-8859-1 label gives the result of a windows-1252 / cp1252
\* label: one scalar per input byte in input order, bytes 0x80-0x9F through
\* the cp1252 table and every other byte as itself, converted = true also
\* for empty input.
C4_Latin1IsCp1252 ==
    LowerLabel(charset) \in (Iso8859Pattern(<<"1">>) \cup Cp1252Pattern) =>
        LET ref == [k \in 1..Len(text0) |-> RefCp1252(text0[k])]
        IN  /\ pc # "start" => route = "cp1252"
            /\ pc \in {"assign", "done"} =>
                   emitted = ref /\ tmp = EncodeAll(ref)
            /\ pc = "done" => converted = TRUE /\ output = EncodeAll(ref)

C4_Witness ==
    /\ pc = "done"
    /\ charset = L_ISO8859_1
    /\ text0 = << 128 >>
    /\ emitted = << 8364 >>
    /\ converted = TRUE
    /\ output = << 226, 130, 172 >>

\* the units of t after its byte order mark, up to its even end
RefUnits(cs, t) ==
    LET e == ExpectedOrder(cs, t)
        n == ((Len(t) - (Len(t) % 2)) - e.first) \div 2
    IN  [k \in 1..n |-> UnitAt(t, e.first + (2 * (k - 1)), e.be)]

\* the chunks of the calls that did not fail with an error other than
\* "output buffer full", concatenated in call order
RECURSIVE KeptChunks(_, _)
KeptChunks(cl, k) ==
    IF k > Len(cl) THEN <<>>
    ELSE (IF cl[k].rc \in {"ok", "E2BIG"} THEN cl[k].chunk ELSE <<>>)
             \o KeptChunks(cl, k + 1)

\* the output of a converting call as a function of the label's branch, the
\* input bytes at entry and the facility's answers
DistinctOutput ==
    CASE route = "utf16" -> EncodeAll(RefDecode(RefUnits(charset, text0), 1))
      [] route = "cp1252" ->
            EncodeAll([k \in 1..Len(text0) |-> RefCp1252(text0[k])])
      [] route = "iso8859_15" ->
            EncodeAll([k \in 1..Len(text0) |-> RefIso8859_15(text0[k])])
      [] route = "try_iconv" -> KeptChunks(calls, 1)
      [] OTHER -> Output0

\* C5: with output being the storage text views, the call gives the flag
\* and the bytes it gives with distinct storage: output is assigned once, as
\* the last step of a call returning true, and never by a call returning
\* false (shortcut label, UTF-16 input under 2 bytes, no conversion context).
C5_AliasingSafe ==
    /\ pc # "done" => output = Output0 /\ nWrites = 0
    /\ pc = "done" => converted \in BOOLEAN
    /\ (pc = "done" /\ converted = FALSE) =>
           /\ output = Output0
           /\ nWrites = 0
           /\ \/ route \in {"passthrough", "short"}
              \/ route = "try_iconv" /\ conv \in {"none", "failed"}
    /\ (pc = "done" /\ converted = TRUE) =>
           /\ nWrites = 1
           /\ output = DistinctOutput

C5_Witness ==
    /\ pc = "done"
    /\ aliased
    /\ charset = L_cp1252
    /\ text0 = << 65, 128 >>
    /\ converted = TRUE
    /\ output = << 65, 226, 130, 172 >>

\* C6: in the UTF-16 decoder every byte read lies before the end of the
\* input: the read position never passes the truncated end and stays an
\* even number of bytes from it, and the last byte of an odd-length input
\* is neither read nor part of a unit.
C6_ReadsInBounds ==
    route = "utf16" =>
        /\ text_size >= 2
        /\ text_end = text_size - (text_size % 2)
        /\ i >= istart /\ i <= text_end
        /\ (text_end - i) % 2 = 0
        /\ maxRead <= text_end
        /\ 2 * Len(units) = i - istart

C6_Witness ==
    /\ pc = "done"
    /\ charset = L_utf16
    /\ text0 = << 254, 255, 216, 61, 65 >>
    /\ istart = 2
    /\ maxRead = 4
    /\ units = << 55357 >>
    /\ output = <<>>


\* lowered labels "utf" + optional separator + "16" or "ucs" + optional
\* separator + "2", then nothing, "le" or "be"
Utf16Pattern ==
    { pre[1] \o sep \o pre[2] \o suf :
        pre \in { << <<"u","t","f">>, <<"1","6">> >>,
                  << <<"u","c","s">>, <<"2">> >> },
        sep \in Seps,
        suf \in { <<>>, <<"l","e">>, <<"b","e">> } }

\* a label none of the shortcut, UTF-16/UCS-2, 1252 and iso-8859-1/-15
\* patterns matches
GenericLabel(cs) ==
    LowerLabel(cs) \notin
        (ShortcutPattern \cup Utf16Pattern \cup Cp1252Pattern
            \cup Iso8859Pattern(<<"1">>) \cup Iso8859Pattern(<<"1","5">>))

\* C7: the decode strategy depends on the label alone: a label matched by
\* none of the patterns goes to the generic fallback decoder for every
\* input, also for input shorter than 2 bytes when the label is utf16/ucs2
\* followed by a suffix other than LE or BE.
C7_StrategyByLabelAlone ==
    (pc = "done" /\ GenericLabel(charset)) => route = "try_iconv"

\* the part of C7 the code keeps: the branch taken agrees with the patterns
\* for every label, except that utf16/ucs2 labels with another suffix leave
\* by line 77 when the input is shorter than 2 bytes
StrategyFromTwoBytes ==
    pc # "start" =>
        /\ route = "try_iconv" => GenericLabel(charset)
        /\ (GenericLabel(charset) /\ route # "try_iconv") =>
               /\ route = "short"
               /\ text_size < 2
               /\ PrefixParse(charset).utf16

\* C8: once a context is open, an error other than "output buffer full"
\* ends the conversion calls, the chunks appended before it are the output,
\* in order, and the call returns converted = true (with empty output when
\* the first call failed); after "output buffer full" the chunk is appended
\* and conversion continues with the remaining input.
C8_PartialOutputKept ==
    (route = "try_iconv" /\ conv \in {"open", "closed"}) =>
        /\ \A k \in 1..(Len(calls) - 1) : calls[k].rc = "E2BIG"
        /\ tmp = KeptChunks(calls, 1)
        /\ pc \in {"assign", "done"} =>
               \/ calls = <<>> /\ text_size = 0
               \/ calls # <<>> /\ calls[Len(calls)].rc = "EILSEQ"
               \/ calls # <<>> /\ calls[Len(calls)].left = 0
        /\ pc = "done" => converted = TRUE /\ output = KeptChunks(calls, 1)

C8_Witness ==
    /\ pc = "done"
    /\ Len(calls) = 3
    /\ calls[1].rc = "E2BIG" /\ calls[1].chunk = << 48 >>
    /\ calls[2].rc = "E2BIG" /\ calls[2].chunk = << 49 >>
    /\ calls[3].rc = "EILSEQ" /\ calls[3].left = 1
    /\ converted = TRUE
    /\ output = << 48, 49 >>

\* C9: no conversion context is open when the call returns: an opened
\* context is closed exactly once, after the input is exhausted or a call
\* failed; no call is made on a closed or unopened context; when opening
\* fails the call returns converted = false without a conversion call.
C9_ContextReleased ==
    /\ ~ badCall
    /\ nClose = (IF conv = "closed" THEN 1 ELSE 0)
    /\ conv = "closed" => pc \in {"assign", "done"}
    /\ conv = "open" => pc \in {"iconv", "iconv_break"}
    /\ pc = "done" => conv # "open"
    /\ (pc = "done" /\ conv = "failed") => converted = FALSE /\ calls = <<>>
    /\ conv \in {"none", "failed"} => calls = <<>>

C9_Witness ==
    /\ pc = "done"
    /\ conv = "closed"
    /\ nClose = 1
    /\ Len(calls) = 2
    /\ calls[2].rc = "EILSEQ"
    /\ converted = TRUE

\* the three decoders that encode through the staging buffer
InBuiltinLoop == pc \in {"utf16", "utf16_break", "cp1252", "iso8859_15"}

\* C10 as stated: the staging buffer is flushed exactly when less than 4
\* bytes of capacity remain after an encode.
C10_FlushBelowFour ==
    enc.any => (enc.flushed <=> BufSize - enc.post < 4)

\* C10: an encode finds at least 4 free bytes in the 1024-byte staging
\* buffer and never writes past its end; the buffer is flushed, and its fill
\* index reset to 0, exactly when at most 4 bytes of capacity remain after
\* an encode; flushes fall between complete encodings; the output is the
\* in-order concatenation of the encodings of all emitted scalars.
C10_StagingBuffer ==
    /\ enc.any =>
           /\ BufSize - enc.pre >= 4
           /\ enc.post <= BufSize
           /\ enc.flushed <=> BufSize - enc.post <= 4
    /\ InBuiltinLoop =>
           /\ start = Len(buf)
           /\ BufSize - start >= 4
           /\ tmp \o buf = EncodeAll(emitted)
           /\ (enc.any /\ enc.flushed) => start = 0 /\ tmp = EncodeAll(emitted)
    /\ (pc = "done" /\ route \in {"utf16", "cp1252", "iso8859_15"}) =>
           output = EncodeAll(emitted)

C10_Witness ==
    /\ pc = "cp1252"
    /\ enc.any /\ enc.flushed
    /\ enc.post = BufSize - 4
    /\ start = 0
    /\ Len(tmp) = BufSize - 4
    /\ i < text_size

\* the generic fallback loop is running and its last conversion call
\* answered "output buffer full" without consuming input
Stalling == pc = "iconv" /\ in_len # 0 /\ stalled

Remaining ==
    CASE pc = "start" -> text_size + 4
      [] pc = "utf16" -> (text_end - i) \div 2 + 3
      [] pc \in {"cp1252", "iso8859_15"} -> (text_size - i) + 3
      [] pc = "iconv" -> in_len + 3
      [] pc \in {"utf16_break", "iconv_break"} -> 2
      [] pc = "assign" -> 1
      [] pc = "done" -> 0

\* the values of Route, each the guard of the actions of one strategy
Routes == {"passthrough", "short", "utf16", "cp1252", "iso8859_15", "try_iconv"}

\* a call that has not returned can take a step: at entry the label and the
\* size select a strategy, afterwards some action is enabled
CanStep ==
    CASE pc = "start" -> Route(charset, text_size) \in Routes
      [] pc = "done" -> TRUE
      [] OTHER -> ENABLED Next

ReturnsUnlessStalledForever == (<>(pc = "done")) \/ (<>[]Stalling)

====
